---- MODULE Spec2Model ----
(***************************************************************************)
(* A model of the receive-kit verification endpoint, POST /api/receive     *)
(* (src/index.ts, src/txUtils.ts).                                         *)
(*                                                                         *)
(* JSON values are tagged records, so that values of different JSON types  *)
(* can live in one set:                                                    *)
(*   [str |-> "abc"]   a string         [num |-> 7]     a number           *)
(*   [null |-> TRUE]   null             [undef |-> TRUE] undefined         *)
(*   [arr |-> <<v1, ..., vn>>]          an array                           *)
(*   [obj |-> <<[key |-> k1, val |-> v1], ...>>]   an object; the order of *)
(*                     the entries is the object's key (insertion) order   *)
(***************************************************************************)
EXTENDS Integers, Sequences, FiniteSets, TLC

\* ---------------------------------------------------------------- bounds

\* Connections the server handles; each carries at most one request.
\* The depth of the values nested in a submission.
MaxDepth == 2

NumReqs == 2
\* Longest `data` array of the submissions of the fan-out family.
MaxRecords == 2
\* Longest decoded log sequence of a transaction of the on-chain family.
MaxLogs == 2

Reqs == 1..NumReqs

\* ------------------------------------------------------------ JSON values

Str(s) == [str |-> s]
Num(n) == [num |-> n]
Null == [null |-> TRUE]
Undefined == [undef |-> TRUE]
Arr(elems) == [arr |-> elems]
Obj(entries) == [obj |-> entries]
Entry(k, v) == [key |-> k, val |-> v]

IsStr(v) == DOMAIN v = {"str"}
IsNum(v) == DOMAIN v = {"num"}
IsNull(v) == DOMAIN v = {"null"}
IsUndefined(v) == DOMAIN v = {"undef"}
IsArr(v) == DOMAIN v = {"arr"}
IsObj(v) == DOMAIN v = {"obj"}

\* object[key]: the property of an object, undefined when it has none (and
\* for a value that is no object: the model reads no property of a scalar).
Get(object, key) ==
  IF IsObj(object) /\ \E i \in DOMAIN object.obj : object.obj[i].key = key
  THEN object.obj[CHOOSE i \in DOMAIN object.obj : object.obj[i].key = key].val
  ELSE Undefined

\* The sequence s with f applied to each element (Array.prototype.map).
Map(f(_), s) == [i \in DOMAIN s |-> f(s[i])]

\* The concatenation of a sequence of sequences.
RECURSIVE Concat(_)
Concat(ss) == IF ss = <<>> THEN <<>> ELSE Head(ss) \o Concat(Tail(ss))

\* The strings of a sequence joined into one, sep between them.
RECURSIVE Join(_, _)
Join(strs, sep) ==
  IF strs = <<>> THEN ""
  ELSE IF Len(strs) = 1 THEN strs[1]
  ELSE strs[1] \o sep \o Join(Tail(strs), sep)

\* -------------------------------------------------- canonicalization (4.1)

\* The keys the model's objects use, in ascending order of their UTF-16 code
\* units: the order lodash's sortBy puts strings in.
KeyOrder ==
  << "0", "1", "2", "a", "attester", "b", "c", "data", "layer2Hash",
     "packedData", "proof", "signature", "subject", "token", "tx" >>

\* _.keys(object): the own enumerable keys of an object, the indices of an
\* array or of a string, nothing for null, undefined and the other scalars.
Keys(object) ==
  IF IsObj(object) THEN [i \in DOMAIN object.obj |-> object.obj[i].key]
  ELSE IF IsArr(object) THEN [i \in DOMAIN object.arr |-> ToString(i - 1)]
  ELSE IF IsStr(object) THEN [i \in 1..Len(object.str) |-> ToString(i - 1)]
  ELSE <<>>

\* object[key] for a key that Keys(object) lists.
Prop(object, key) ==
  IF IsObj(object) THEN Get(object, key)
  ELSE LET i == CHOOSE j \in 1..Len(Keys(object)) : ToString(j - 1) = key
       IN IF IsArr(object) THEN object.arr[i]
          ELSE Str(SubSeq(object.str, i, i))

\* SortedKeys reversing the keys instead of sorting them.
ReversedKeys(object) ==
  LET keys == Keys(object)
  IN [i \in DOMAIN keys |-> keys[Len(keys) + 1 - i]]

\* _.sortBy(keys, key => key)
SortedKeys(object) ==
  LET keys == Keys(object)
  IN SelectSeq(KeyOrder, LAMBDA k : \E i \in DOMAIN keys : keys[i] = k)

\* sortObject: a new plain object holding the keys of `object` in ascending
\* order. A value with typeof "object" that is no array (an object, or null)
\* is sorted in turn; an array and a scalar are stored as they are.
RECURSIVE sortObject(_)
sortObject(object) ==
  LET keys == SortedKeys(object)
  IN Obj([i \in 1..Len(keys) |->
            LET v == Prop(object, keys[i])
            IN Entry(keys[i], IF IsObj(v) \/ IsNull(v) THEN sortObject(v) ELSE v)])

\* Lines 209-210: the body with its keys sorted, then `data` replaced by its
\* elements, each sorted.
Canonicalize(reqBody) ==
  LET sorted == sortObject(reqBody)
  IN Obj([i \in DOMAIN sorted.obj |->
            IF sorted.obj[i].key = "data"
            THEN Entry("data", Arr(Map(sortObject, sorted.obj[i].val.arr)))
            ELSE sorted.obj[i]])

\* ------------------------------------------------ shape validation (4.2)

WhiteSpace == {" ", "\t", "\n"}

\* String.prototype.trim
RECURSIVE trim(_)
trim(s) ==
  IF s = "" THEN ""
  ELSE IF SubSeq(s, 1, 1) \in WhiteSpace THEN trim(SubSeq(s, 2, Len(s)))
  ELSE IF SubSeq(s, Len(s), Len(s)) \in WhiteSpace
       THEN trim(SubSeq(s, 1, Len(s) - 1))
  ELSE s

\* isNullOrWhiteSpace without the trim: only the empty string is blank.
isNullOrEmpty(value) == ~IsStr(value) \/ value.str = ""

isNullOrWhiteSpace(value) == ~IsStr(value) \/ trim(value.str) = ""

Err(k) == [key |-> k, message |-> "TODO"]

\* !(data instanceof Array) || !data.length
NotNonEmptyArray(value) == ~IsArr(value) \/ Len(value.arr) = 0

validateRequestFormat(reqBody) ==
  (IF isNullOrWhiteSpace(Get(reqBody, "token")) THEN <<Err("token")>> ELSE <<>>)
  \o (IF isNullOrWhiteSpace(Get(reqBody, "subject")) THEN <<Err("subject")>> ELSE <<>>)
  \o (IF NotNonEmptyArray(Get(reqBody, "data")) THEN <<Err("data")>> ELSE <<>>)
  \o (IF isNullOrWhiteSpace(Get(reqBody, "packedData")) THEN <<Err("packedData")>> ELSE <<>>)
  \o (IF isNullOrWhiteSpace(Get(reqBody, "signature")) THEN <<Err("signature")>> ELSE <<>>)

\* ---------------------------------------- off-chain identity check (4.3)

\* JSON.stringify: the text of a value, the keys of an object in their order.
\* A property whose value is undefined is left out; an undefined array
\* element is written null.
RECURSIVE Stringify(_)
Stringify(v) ==
  IF IsStr(v) THEN "\"" \o v.str \o "\""
  ELSE IF IsNum(v) THEN ToString(v.num)
  ELSE IF IsArr(v)
       THEN "[" \o Join([i \in DOMAIN v.arr |-> Stringify(v.arr[i])], ",") \o "]"
  ELSE IF IsObj(v)
       THEN LET kept == SelectSeq(v.obj, LAMBDA e : ~IsUndefined(e.val))
            IN "{" \o Join([i \in DOMAIN kept |->
                              "\"" \o kept[i].key \o "\":" \o Stringify(kept[i].val)],
                           ",") \o "}"
  ELSE "null"

\* keccak256 of js-sha3, as a symbolic hash: a function of its input that
\* takes different inputs to different digests.
keccak256(text) == "keccak256(" \o text \o ")"

\* toBuffer of share-kit: the bytes a hex string writes.
toBuffer(hex) == [bytes |-> hex]

\* The signature an address makes over a message (the signing side, which
\* the submitter runs: recoverHashSigner inverts it).
Sign(address, message) == "sig(" \o address \o "," \o message.bytes \o ")"

\* The addresses that sign in the model.
Addresses == {"0xA1", "0xA2"}

\* HashingLogic.recoverHashSigner: the address whose signature over
\* `message` is `signature`. Recovery over another message than the signed
\* one yields an address all the same, one determined by both arguments.
recoverHashSigner(message, signature) ==
  IF \E a \in Addresses : Sign(a, message) = signature
  THEN CHOOSE a \in Addresses : Sign(a, message) = signature
  ELSE "0xrecovered(" \o message.bytes \o "," \o signature \o ")"

signerEthAddress(shareKitResData) ==
  recoverHashSigner(toBuffer(Get(shareKitResData, "packedData").str),
                    Get(shareKitResData, "signature").str)

recoveredPackedData(shareKitResData) ==
  "0x" \o keccak256(Stringify(Obj(<< Entry("data", Get(shareKitResData, "data")),
                                     Entry("token", Get(shareKitResData, "token")) >>)))

\* validateBasicOffChainProperties recovering the signer over the hash it
\* recomputes instead of over the packedData the submission claims.
validateBasicOverRecomputedHash(shareKitResData) ==
  (IF Get(shareKitResData, "subject")
        # Str(recoverHashSigner(toBuffer(recoveredPackedData(shareKitResData)),
                                Get(shareKitResData, "signature").str))
   THEN <<Err("subject")>> ELSE <<>>)
  \o (IF Str(recoveredPackedData(shareKitResData)) # Get(shareKitResData, "packedData")
      THEN <<Err("packedData")>> ELSE <<>>)

\* validateBasicOffChainProperties returning at the first error it finds.
validateBasicUntilFirstError(shareKitResData) ==
  IF Get(shareKitResData, "subject") # Str(signerEthAddress(shareKitResData))
  THEN <<Err("subject")>>
  ELSE IF Str(recoveredPackedData(shareKitResData)) # Get(shareKitResData, "packedData")
       THEN <<Err("packedData")>> ELSE <<>>

validateBasicOffChainProperties(shareKitResData) ==
  (IF Get(shareKitResData, "subject") # Str(signerEthAddress(shareKitResData))
   THEN <<Err("subject")>> ELSE <<>>)
  \o (IF Str(recoveredPackedData(shareKitResData)) # Get(shareKitResData, "packedData")
      THEN <<Err("packedData")>> ELSE <<>>)

\* ------------------------------------- per-record integrity check (4.4)

\* shareKitUtil.verifyOffChainDataIntegrity, the external primitive that
\* checks a record's own hashes against its content and returns its errors.
\* The records of the model carry the outcome in `proof`: "ok" is a record
\* whose content hashes to its claims.
verifyOffChainDataIntegrity(d) ==
  IF Get(d, "proof") = Str("ok") THEN <<>> ELSE <<"proof does not hash to layer2Hash">>

offChainVerificationsOfFailing(shareKitResData) ==
  SelectSeq(Map(LAMBDA d : [layer2Hash |-> Get(d, "layer2Hash"),
                            errors |-> verifyOffChainDataIntegrity(d)],
                Get(shareKitResData, "data").arr),
            LAMBDA v : Len(v.errors) > 0)

offChainVerifications(shareKitResData) ==
  Map(LAMBDA d : [layer2Hash |-> Get(d, "layer2Hash"),
                  errors |-> verifyOffChainDataIntegrity(d)],
      Get(shareKitResData, "data").arr)

hasOffChainVerificationErrors(verifications) ==
  ~(\A i \in DOMAIN verifications : Len(verifications[i].errors) = 0)

\* --------------------------------------------- decoded logs (txUtils.ts)

\* A raw log of a receipt is either an event of the attestation contract's
\* ABI, [abi |-> TRUE, name |-> ..., events |-> <<[name, value], ...>>], or a
\* log of another contract, [abi |-> FALSE]. abiDecoder.decodeLogs keeps the
\* former, decoded into TDecodedLog (the address of the emitting contract and
\* the declared type of an event are read nowhere and are left out).
decodeLogs(rawLogs) ==
  Map(LAMBDA l : [name |-> l.name, events |-> l.events],
      SelectSeq(rawLogs, LAMBDA l : l.abi))

\* What the node answers for a transaction: a receipt with its logs, or no
\* receipt (the transaction is unknown), or nothing (the node is unreachable).
Receipt(rawLogs) == [node |-> "receipt", logs |-> rawLogs]
NoReceipt == [node |-> "null"]
Unreachable == [node |-> "unreachable"]

\* getDecodedTxEventLogs rejects when getTransactionReceipt does, and when
\* the receipt is null (txReceipt.logs throws).
FetchFails(answer) == answer.node # "receipt"

\* The value getDecodedTxEventLogs resolves with.
getDecodedTxEventLogs(answer) == decodeLogs(answer.logs)

\* Array.prototype.find as an index: the first element satisfying P, 0 if none.
FindIndex(seq, P(_)) ==
  IF \E i \in DOMAIN seq : P(seq[i])
  THEN CHOOSE i \in DOMAIN seq : P(seq[i]) /\ \A j \in 1..(i - 1) : ~P(seq[j])
  ELSE 0

\* event && event.value, the value as a JSON string
getDecodedLogValueByName(decodedLog, name) ==
  LET e == FindIndex(decodedLog.events, LAMBDA ev : ev.name = name)
  IN IF e = 0 THEN Undefined ELSE Str(decodedLog.events[e].value)

\* -------------------------------------------- on-chain cross-check (4.6)

\* The forEach body without the return of line 144: after the TraitAttested
\* error the three comparisons are made all the same, against the fields of
\* a log that is not there.
forEachWithoutReturn(subject, dl) ==
  LET t == FindIndex(dl.logs, LAMBDA l : l.name = "TraitAttested")
      traitAttestedLogs == IF t = 0 THEN [name |-> "", events |-> <<>>] ELSE dl.logs[t]
  IN (IF t = 0 THEN <<Err("TraitAttested")>> ELSE <<>>)
     \o (IF subject # getDecodedLogValueByName(traitAttestedLogs, "subject")
         THEN <<Err("subject")>> ELSE <<>>)
     \o (IF Get(dl.shareData, "attester")
             # getDecodedLogValueByName(traitAttestedLogs, "attester")
         THEN <<Err("attester")>> ELSE <<>>)
     \o (IF Get(dl.shareData, "layer2Hash")
             # getDecodedLogValueByName(traitAttestedLogs, "dataHash")
         THEN <<Err("layer2Hash")>> ELSE <<>>)

\* The forEach body comparing the record's attester with the subject of the
\* log: the wrong field name in the second lookup.
forEachAttesterAgainstSubject(subject, dl) ==
  LET t == FindIndex(dl.logs, LAMBDA l : l.name = "TraitAttested")
      traitAttestedLogs == dl.logs[t]
  IN IF t = 0 THEN <<Err("TraitAttested")>>
     ELSE (IF subject # getDecodedLogValueByName(traitAttestedLogs, "subject")
           THEN <<Err("subject")>> ELSE <<>>)
          \o (IF Get(dl.shareData, "attester")
                  # getDecodedLogValueByName(traitAttestedLogs, "subject")
              THEN <<Err("attester")>> ELSE <<>>)
          \o (IF Get(dl.shareData, "layer2Hash")
                  # getDecodedLogValueByName(traitAttestedLogs, "dataHash")
              THEN <<Err("layer2Hash")>> ELSE <<>>)

\* The body of the forEach of validateOnChainProperties: the errors one
\* {shareData, logs} pair adds.
forEachDecodedLogsAndData(subject, dl) ==
  LET t == FindIndex(dl.logs, LAMBDA l : l.name = "TraitAttested")
      traitAttestedLogs == dl.logs[t]
  IN IF t = 0 THEN <<Err("TraitAttested")>>
     ELSE (IF subject # getDecodedLogValueByName(traitAttestedLogs, "subject")
           THEN <<Err("subject")>> ELSE <<>>)
          \o (IF Get(dl.shareData, "attester")
                  # getDecodedLogValueByName(traitAttestedLogs, "attester")
              THEN <<Err("attester")>> ELSE <<>>)
          \o (IF Get(dl.shareData, "layer2Hash")
                  # getDecodedLogValueByName(traitAttestedLogs, "dataHash")
              THEN <<Err("layer2Hash")>> ELSE <<>>)

\* validateOnChainProperties leaving its loop at the first pair with errors.
validateOnChainUntilFirstFailingPair(subject, decodedLogsAndData) ==
  LET perPair == Map(LAMBDA dl : forEachDecodedLogsAndData(subject, dl), decodedLogsAndData)
      failing == FindIndex(perPair, LAMBDA errors : errors # <<>>)
  IN IF failing = 0 THEN <<>> ELSE perPair[failing]

validateOnChainProperties(subject, decodedLogsAndData) ==
  Concat(Map(LAMBDA dl : forEachDecodedLogsAndData(subject, dl), decodedLogsAndData))

\* ------------------------------------------------------------------ state

VARIABLES
  chain,                   \* the node: its answer for each transaction hash
  body,                    \* req.body of each connection's request
  pc,                      \* where the handler of each request stands
  reqFormatValidation,     \* the handler's local of that name (line 204)
  shareKitResData,         \* the canonicalized body (lines 209-210)
  basicOffChainValidation, \* line 213
  offChainVerificationsOf, \* offChainVerifications, line 223
  fetch,                   \* the state of each getDecodedTxEventLogs call
  decodedDataAndLogs,      \* the array the fetch callbacks push to (line 237)
  onChainVerifications,    \* line 249
  response,                \* what res has sent
  ran                      \* the stages the handler has executed, in order

vars ==
  << chain, body, pc, reqFormatValidation, shareKitResData,
     basicOffChainValidation, offChainVerificationsOf, fetch,
     decodedDataAndLogs, onChainVerifications, response, ran >>

\* No request on the connection.
NoRequest == Undefined
\* Nothing sent yet.
NoResponse == [status |-> 0]

\* res.status(400).json({errors})
BadRequest(errors) == [status |-> 400, errors |-> errors]
\* res.status(200).json({success: true, token})
Accepted(token) == [status |-> 200, success |-> TRUE, token |-> token]
\* The framework's answer to a handler that failed.
ServerError == [status |-> 500]

\* The DataRecords the handler works on.
DataOf(r) == Get(shareKitResData[r], "data").arr

\* -------------------------------------------------------------- the handler

\* Lines 204-207.
ValidateShape(r) ==
  /\ pc[r] = "shape"
  /\ LET errors == validateRequestFormat(body[r])
     IN /\ reqFormatValidation' = [reqFormatValidation EXCEPT ![r] = errors]
        /\ ran' = [ran EXCEPT ![r] = Append(@, "shape")]
        /\ IF Len(errors) # 0
           THEN /\ response' = [response EXCEPT ![r] = BadRequest(errors)]
                /\ pc' = [pc EXCEPT ![r] = "done"]
           ELSE /\ response' = response
                /\ pc' = [pc EXCEPT ![r] = "canon"]
  /\ UNCHANGED << chain, body, shareKitResData, basicOffChainValidation,
                  offChainVerificationsOf, fetch, decodedDataAndLogs,
                  onChainVerifications >>

\* Lines 209-210 sorting req.body where it lies: the sorted keys and the
\* sorted records are written to the object the request holds.
CanonicalizeBodyInPlace(r) ==
  /\ pc[r] = "canon"
  /\ shareKitResData' = [shareKitResData EXCEPT ![r] = Canonicalize(body[r])]
  /\ body' = [body EXCEPT ![r] = Canonicalize(body[r])]
  /\ pc' = [pc EXCEPT ![r] = "identity"]
  /\ UNCHANGED << chain, reqFormatValidation, basicOffChainValidation,
                  offChainVerificationsOf, fetch, decodedDataAndLogs,
                  onChainVerifications, response, ran >>

\* Lines 209-210. sortObject builds its result in an object it creates
\* (line 19) and Array.map returns a new array, so the assignment of line 210
\* writes `data` of the new object: req.body is left as received.
CanonicalizeBody(r) ==
  /\ pc[r] = "canon"
  /\ shareKitResData' = [shareKitResData EXCEPT ![r] = Canonicalize(body[r])]
  /\ pc' = [pc EXCEPT ![r] = "identity"]
  /\ UNCHANGED << chain, body, reqFormatValidation, basicOffChainValidation,
                  offChainVerificationsOf, fetch, decodedDataAndLogs,
                  onChainVerifications, response, ran >>

\* ValidateIdentity without the return of line 217: the 400 is sent and the
\* handler goes on to the integrity check.
ValidateIdentityContinues(r) ==
  /\ pc[r] = "identity"
  /\ LET errors == validateBasicOffChainProperties(shareKitResData[r])
     IN /\ basicOffChainValidation' = [basicOffChainValidation EXCEPT ![r] = errors]
        /\ ran' = [ran EXCEPT ![r] = Append(@, "identity")]
        /\ response' = [response EXCEPT ![r] =
                          IF Len(errors) # 0 THEN BadRequest(errors) ELSE @]
        /\ pc' = [pc EXCEPT ![r] = "integrity"]
  /\ UNCHANGED << chain, body, reqFormatValidation, shareKitResData,
                  offChainVerificationsOf, fetch, decodedDataAndLogs,
                  onChainVerifications >>

\* Lines 213-220.
ValidateIdentity(r) ==
  /\ pc[r] = "identity"
  /\ LET errors == validateBasicOffChainProperties(shareKitResData[r])
     IN /\ basicOffChainValidation' = [basicOffChainValidation EXCEPT ![r] = errors]
        /\ ran' = [ran EXCEPT ![r] = Append(@, "identity")]
        /\ IF Len(errors) # 0
           THEN /\ response' = [response EXCEPT ![r] = BadRequest(errors)]
                /\ pc' = [pc EXCEPT ![r] = "done"]
           ELSE /\ response' = response
                /\ pc' = [pc EXCEPT ![r] = "integrity"]
  /\ UNCHANGED << chain, body, reqFormatValidation, shareKitResData,
                  offChainVerificationsOf, fetch, decodedDataAndLogs,
                  onChainVerifications >>

\* Lines 223-234.
\* VerifyIntegrity without the `return` of line 231: the 400 is sent and the
\* handler goes on to the fetches.
VerifyIntegrityWithoutReturn(r) ==
  /\ pc[r] = "integrity"
  /\ LET verifications == offChainVerifications(shareKitResData[r])
     IN /\ offChainVerificationsOf' = [offChainVerificationsOf EXCEPT ![r] = verifications]
        /\ ran' = [ran EXCEPT ![r] = Append(@, "integrity")]
        /\ response' = [response EXCEPT ![r] =
                          IF hasOffChainVerificationErrors(verifications)
                          THEN BadRequest(verifications) ELSE @]
        /\ pc' = [pc EXCEPT ![r] = "fanout"]
  /\ UNCHANGED << chain, body, reqFormatValidation, shareKitResData,
                  basicOffChainValidation, fetch, decodedDataAndLogs,
                  onChainVerifications >>

VerifyIntegrity(r) ==
  /\ pc[r] = "integrity"
  /\ LET verifications == offChainVerifications(shareKitResData[r])
     IN /\ offChainVerificationsOf' = [offChainVerificationsOf EXCEPT ![r] = verifications]
        /\ ran' = [ran EXCEPT ![r] = Append(@, "integrity")]
        /\ IF hasOffChainVerificationErrors(verifications)
           THEN /\ response' = [response EXCEPT ![r] = BadRequest(verifications)]
                /\ pc' = [pc EXCEPT ![r] = "done"]
           ELSE /\ response' = response
                /\ pc' = [pc EXCEPT ![r] = "fanout"]
  /\ UNCHANGED << chain, body, reqFormatValidation, shareKitResData,
                  basicOffChainValidation, fetch, decodedDataAndLogs,
                  onChainVerifications >>

\* Lines 237-248, up to the await: decodedDataAndLogs is created empty and
\* the map starts one callback per record, each of which calls
\* getDecodedTxEventLogs and suspends on its promise.
\* StartFetches with decodedDataAndLogs declared at module level: one array
\* for all the requests, which each of them empties.
StartFetchesOnSharedArray(r) ==
  /\ pc[r] = "fanout"
  /\ fetch' = [fetch EXCEPT ![r] = [i \in DOMAIN DataOf(r) |-> "pending"]]
  /\ decodedDataAndLogs' = [q \in Reqs |-> <<>>]
  /\ ran' = [ran EXCEPT ![r] = Append(@, "fetch")]
  /\ pc' = [pc EXCEPT ![r] = "awaiting"]
  /\ UNCHANGED << chain, body, reqFormatValidation, shareKitResData,
                  basicOffChainValidation, offChainVerificationsOf,
                  onChainVerifications, response >>

StartFetches(r) ==
  /\ pc[r] = "fanout"
  /\ fetch' = [fetch EXCEPT ![r] = [i \in DOMAIN DataOf(r) |-> "pending"]]
  /\ decodedDataAndLogs' = [decodedDataAndLogs EXCEPT ![r] = <<>>]
  /\ ran' = [ran EXCEPT ![r] = Append(@, "fetch")]
  /\ pc' = [pc EXCEPT ![r] = "awaiting"]
  /\ UNCHANGED << chain, body, reqFormatValidation, shareKitResData,
                  basicOffChainValidation, offChainVerificationsOf,
                  onChainVerifications, response >>

\* FetchedPair correlating by arrival: the logs that arrive are paired with
\* the next record not yet paired.
FetchedPairByArrival(r, i) ==
  [shareData |-> DataOf(r)[Len(decodedDataAndLogs[r]) + 1],
   logs |-> getDecodedTxEventLogs(chain[Get(DataOf(r)[i], "tx").str])]

\* The pair the callback of record i pushes once its logs have arrived
\* (lines 243-246).
FetchedPair(r, i) ==
  [shareData |-> DataOf(r)[i],
   logs |-> getDecodedTxEventLogs(chain[Get(DataOf(r)[i], "tx").str])]

\* The promise of record i's getDecodedTxEventLogs resolves: the callback
\* resumes and pushes its pair. This happens whatever became of the handler:
\* the callbacks of a Promise.all that has rejected run on.
FetchResolve(r, i) ==
  /\ i \in DOMAIN fetch[r]
  /\ fetch[r][i] = "pending"
  /\ ~FetchFails(chain[Get(DataOf(r)[i], "tx").str])
  /\ fetch' = [fetch EXCEPT ![r][i] = "done"]
  /\ decodedDataAndLogs' =
       [decodedDataAndLogs EXCEPT ![r] = Append(@, FetchedPair(r, i))]
  /\ UNCHANGED << chain, body, pc, reqFormatValidation, shareKitResData,
                  basicOffChainValidation, offChainVerificationsOf,
                  onChainVerifications, response, ran >>

\* What becomes of a request whose handler's promise has rejected. The
\* handler has no try/catch and the application no error middleware, so the
\* framework decides: Express 4 drops the rejection (nothing is ever sent),
\* Express 5 passes it to its default error handler (a 500).
RejectionOutcomes == {"unhandled", "http500"}

\* The promise of record i's getDecodedTxEventLogs rejects: nothing is
\* pushed, and the first rejection rejects Promise.all and, through the
\* await, the handler itself.
FetchReject(r, i) ==
  /\ i \in DOMAIN fetch[r]
  /\ fetch[r][i] = "pending"
  /\ FetchFails(chain[Get(DataOf(r)[i], "tx").str])
  /\ fetch' = [fetch EXCEPT ![r][i] = "failed"]
  /\ IF pc[r] = "awaiting"
     THEN \E outcome \in RejectionOutcomes :
            /\ pc' = [pc EXCEPT ![r] = IF outcome = "http500" THEN "done" ELSE "unhandled"]
            /\ response' = [response EXCEPT ![r] =
                              IF outcome = "http500" THEN ServerError ELSE @]
     ELSE UNCHANGED << pc, response >>
  /\ UNCHANGED << chain, body, reqFormatValidation, shareKitResData,
                  basicOffChainValidation, offChainVerificationsOf,
                  decodedDataAndLogs, onChainVerifications, ran >>

\* AllFetchesResolved as Promise.race would have it: some callback has.
SomeFetchResolved(r) == \E i \in DOMAIN fetch[r] : fetch[r][i] = "done"

\* Promise.all has resolved: every callback has.
AllFetchesResolved(r) == \A i \in DOMAIN fetch[r] : fetch[r][i] = "done"

\* Lines 249-262, the continuation of the await.
ValidateOnChain(r) ==
  /\ pc[r] = "awaiting"
  /\ AllFetchesResolved(r)
  /\ LET errors == validateOnChainProperties(Get(shareKitResData[r], "subject"),
                                             decodedDataAndLogs[r])
     IN /\ onChainVerifications' = [onChainVerifications EXCEPT ![r] = errors]
        /\ ran' = [ran EXCEPT ![r] = Append(@, "onchain")]
        /\ response' = [response EXCEPT ![r] =
                          IF Len(errors) # 0 THEN BadRequest(errors)
                          ELSE Accepted(Get(body[r], "token"))]
        /\ pc' = [pc EXCEPT ![r] = "done"]
  /\ UNCHANGED << chain, body, reqFormatValidation, shareKitResData,
                  basicOffChainValidation, offChainVerificationsOf, fetch,
                  decodedDataAndLogs >>

Next ==
  \E r \in Reqs :
    \/ ValidateShape(r)
    \/ CanonicalizeBody(r)
    \/ ValidateIdentity(r)
    \/ VerifyIntegrity(r)
    \/ StartFetches(r)
    \/ \E i \in DOMAIN fetch[r] : FetchResolve(r, i)
    \/ \E i \in DOMAIN fetch[r] : FetchReject(r, i)
    \/ ValidateOnChain(r)

\* ------------------------------------------------------------- the inputs

\* The transactions the node may be asked for, and the hash each attested.
Tx(i) == "0xT" \o ToString(i)
Txs == {Tx(i) : i \in 1..MaxRecords}
HashForTx(tx) == "0xH(" \o tx \o ")"

StdToken == "token-1"
StdSubject == "0xA1"
StdAttester == "0xB1"

\* A DataRecord as a client writes it: its keys are not in sorted order.
MkRecord(tx, layer2Hash, attester, proof) ==
  Obj(<< Entry("tx", Str(tx)), Entry("layer2Hash", Str(layer2Hash)),
         Entry("attester", Str(attester)), Entry("proof", Str(proof)) >>)

\* The record of transaction i that the chain bears out.
StdRecord(i) == MkRecord(Tx(i), HashForTx(Tx(i)), StdAttester, "ok")

\* A request body: the five fields in the order a client writes them, a
\* field whose value is undefined being absent.
MkBody(token, subject, data, packedData, signature) ==
  Obj(SelectSeq(<< Entry("token", token), Entry("subject", subject),
                   Entry("data", data), Entry("packedData", packedData),
                   Entry("signature", signature) >>,
                LAMBDA e : ~IsUndefined(e.val)))

\* The packedData of an honest client: the hash of {data, token} with the
\* keys of each record sorted, which is what the server recomputes.
PackedDataOf(data, token) ==
  "0x" \o keccak256(Stringify(Obj(<< Entry("data", Arr(Map(sortObject, data))),
                                     Entry("token", Str(token)) >>)))

\* The hash of {data, token} with the records' keys as the client wrote them.
UnsortedPackedDataOf(data, token) ==
  "0x" \o keccak256(Stringify(Obj(<< Entry("data", Arr(data)),
                                     Entry("token", Str(token)) >>)))

\* A submission `signer` signed over `signedMessage`.
SignedBody(token, subject, data, packedData, signer, signedMessage) ==
  MkBody(Str(token), Str(subject), Arr(data), Str(packedData),
         Str(Sign(signer, toBuffer(signedMessage))))

\* The submission of an honest subject over `data`.
HonestBody(data) ==
  SignedBody(StdToken, StdSubject, data, PackedDataOf(data, StdToken),
             StdSubject, PackedDataOf(data, StdToken))

\* The TraitAttested event of the attestation contract.
TraitAttested(subject, attester, dataHash) ==
  [abi |-> TRUE, name |-> "TraitAttested",
   events |-> << [name |-> "subject", value |-> subject],
                 [name |-> "attester", value |-> attester],
                 [name |-> "requester", value |-> "0xC1"],
                 [name |-> "dataHash", value |-> dataHash] >>]

\* Another event of the ABI, and a log of another contract.
OtherEvent == [abi |-> TRUE, name |-> "AttestationRejected", events |-> <<>>]
ForeignLog == [abi |-> FALSE]

\* The chain that bears out every StdRecord.
DefaultChain ==
  [t \in Txs |-> Receipt(<<TraitAttested(StdSubject, StdAttester, HashForTx(t))>>)]

\* Family 1, the shape of the body: every combination of absent, null,
\* empty, blank, non-string and well-formed values of the five fields.
ScalarShapes(valid) == {Undefined, Null, Str(""), Str(" \t "), Num(7), Str(valid)}
DataShapes(valid) == {Undefined, Arr(<<>>), Str("records"), Arr(valid)}

ShapeInputs ==
  LET data == <<StdRecord(1)>>
      packed == PackedDataOf(data, StdToken)
  IN { [body |-> MkBody(t, s, d, p, g), chain |-> DefaultChain] :
         t \in ScalarShapes(StdToken), s \in ScalarShapes(StdSubject),
         d \in DataShapes(data), p \in ScalarShapes(packed),
         g \in ScalarShapes(Sign(StdSubject, toBuffer(packed))) }

\* The data arrays of 1..MaxRecords records, record i about transaction i,
\* each record intact or tampered with.
DataArrays ==
  UNION { { [i \in 1..n |-> MkRecord(Tx(i), HashForTx(Tx(i)), StdAttester, proofs[i])] :
              proofs \in [1..n -> {"ok", "tampered"}] } : n \in 1..MaxRecords }

\* Family 2, identity and integrity: who signed what, which packedData is
\* claimed, and which records are intact.
PackedChoices(data) ==
  { PackedDataOf(data, StdToken), UnsortedPackedDataOf(data, StdToken), "0xgarbage" }

IdentityInputs ==
  UNION { UNION { { [body |-> SignedBody(StdToken, subject, data, packed, signer, message),
                     chain |-> DefaultChain] :
                      subject \in Addresses, signer \in Addresses,
                      message \in {packed, PackedDataOf(data, StdToken)} } :
                  packed \in PackedChoices(data) } :
          data \in DataArrays }

\* Family 3, the logs of one transaction: every sequence of at most MaxLogs
\* raw logs, for an honest submission of one record.
RawLogs ==
  { TraitAttested(s, a, h) :
      s \in {StdSubject, "0xA2"}, a \in {StdAttester, "0xB2"},
      h \in {HashForTx(Tx(1)), "0xH9"} }
  \cup { OtherEvent, ForeignLog }

RawLogSeqs == UNION { [1..n -> RawLogs] : n \in 0..MaxLogs }

OnChainInputs ==
  { [body |-> HonestBody(<<StdRecord(1)>>),
     chain |-> [DefaultChain EXCEPT ![Tx(1)] = Receipt(logs)]] : logs \in RawLogSeqs }

\* Family 4, the fan-out: an honest submission of 1..MaxRecords records, and
\* for each of its transactions a node that is unreachable, has no receipt,
\* or has a receipt with no TraitAttested log, the matching one, or one of
\* another attester.
FanOutAnswers(t) ==
  { Unreachable, NoReceipt, Receipt(<<ForeignLog>>),
    Receipt(<<TraitAttested(StdSubject, StdAttester, HashForTx(t))>>),
    Receipt(<<TraitAttested(StdSubject, "0xB2", HashForTx(t))>>) }

FanOutChains(n) ==
  { c \in [Txs -> UNION {FanOutAnswers(t) : t \in Txs}] :
      \A i \in 1..MaxRecords :
        IF i <= n THEN c[Tx(i)] \in FanOutAnswers(Tx(i))
        ELSE c[Tx(i)] = DefaultChain[Tx(i)] }

FanOutInputs ==
  UNION { { [body |-> HonestBody([i \in 1..n |-> StdRecord(i)]), chain |-> c] :
              c \in FanOutChains(n) } : n \in 1..MaxRecords }

Inputs == ShapeInputs \cup IdentityInputs \cup OnChainInputs \cup FanOutInputs

\* The state in which the requests `bodies` have been received and no
\* handler has run yet.
Start(bodies, node) ==
  /\ chain = node
  /\ body = bodies
  /\ pc = [r \in Reqs |-> IF bodies[r] = NoRequest THEN "none" ELSE "shape"]
  /\ reqFormatValidation = [r \in Reqs |-> <<>>]
  /\ shareKitResData = [r \in Reqs |-> Undefined]
  /\ basicOffChainValidation = [r \in Reqs |-> <<>>]
  /\ offChainVerificationsOf = [r \in Reqs |-> <<>>]
  /\ fetch = [r \in Reqs |-> <<>>]
  /\ decodedDataAndLogs = [r \in Reqs |-> <<>>]
  /\ onChainVerifications = [r \in Reqs |-> <<>>]
  /\ response = [r \in Reqs |-> NoResponse]
  /\ ran = [r \in Reqs |-> <<>>]

\* One request, on connection 1.
Init ==
  \E input \in Inputs :
    Start([r \in Reqs |-> IF r = 1 THEN input.body ELSE NoRequest], input.chain)

Spec == Init /\ [][Next]_vars

\* The body b with its packedData replaced.
WithPackedData(b, packed) ==
  Obj([i \in DOMAIN b.obj |->
         IF b.obj[i].key = "packedData" THEN Entry("packedData", packed) ELSE b.obj[i]])

\* What a packedData may be changed to after the signing.
MutatedPackedData(data, packed) ==
  { Str(packed \o "f"), Str(UnsortedPackedDataOf(data, StdToken)), Str("0xgarbage") }

\* A validly signed submission on connection 1 and, on every other
\* connection, the same submission with its packedData changed after the
\* signing.
InitPair ==
  \E signer \in Addresses, answer \in FanOutAnswers(Tx(1)) :
    LET data == <<StdRecord(1)>>
        packed == PackedDataOf(data, StdToken)
        signed == SignedBody(StdToken, signer, data, packed, signer, packed)
    IN \E mutation \in [Reqs \ {1} -> MutatedPackedData(data, packed)] :
         Start([r \in Reqs |-> IF r = 1 THEN signed ELSE WithPackedData(signed, mutation[r])],
               [DefaultChain EXCEPT ![Tx(1)] = answer])

SpecPair == InitPair /\ [][Next]_vars

\* ------------------------------------------------- inputs: nested values

\* The scalars of the nested values: a string and null.
Scalars == {Str("x"), Null}

\* The JSON values nested at most `depth` deep: a scalar, a mapping of two
\* keys written out of order, the first holding a nested value and the second
\* a scalar, or a sequence of one nested value.
RECURSIVE Trees(_)
Trees(depth) ==
  IF depth = 0 THEN Scalars
  ELSE LET below == Trees(depth - 1)
       IN below
          \cup { Obj(<<Entry("c", u), Entry("b", s)>>) : u \in below, s \in Scalars }
          \cup { Arr(<<u>>) : u \in below }

\* A record with one more field, written after the others.
WithField(record, key, value) == Obj(Append(record.obj, Entry(key, value)))

\* Family 5, the values sortObject is given: an honest submission whose one
\* data element is a nested value, on the default chain; and an honest
\* submission of the record the chain bears out carrying a nested value in a
\* field `a`, on every chain of the fan-out.
CanonInputs ==
  { [body |-> HonestBody(<<tree>>), chain |-> DefaultChain] : tree \in Trees(MaxDepth) }
  \cup { [body |-> HonestBody(<<WithField(StdRecord(1), "a", tree)>>), chain |-> c] :
           tree \in Trees(MaxDepth), c \in FanOutChains(1) }

InitCanon ==
  \E input \in CanonInputs :
    Start([r \in Reqs |-> IF r = 1 THEN input.body ELSE NoRequest], input.chain)

SpecCanon == InitCanon /\ [][Next]_vars

\* ------------------------------------- inputs: one submission, two writings

\* Value x as a client writing its keys in the opposite order sends it: the
\* keys of its mappings reversed, down to the n-th mapping on every path
\* (sequences keep their order, and their elements are written likewise).
RECURSIVE ReorderedTo(_, _)
ReorderedTo(x, n) ==
  IF n = 0 THEN x
  ELSE IF IsObj(x)
  THEN Obj([i \in DOMAIN x.obj |->
              LET e == x.obj[Len(x.obj) + 1 - i]
              IN Entry(e.key, ReorderedTo(e.val, n - 1))])
  ELSE IF IsArr(x) THEN Arr([i \in DOMAIN x.arr |-> ReorderedTo(x.arr[i], n)])
  ELSE x

\* The other writings of a body: reordered at the top level only (1), also in
\* its records (2), and also in the values nested in them (3 and deeper).
Reorderings(b) == { ReorderedTo(b, n) : n \in 1..(2 + MaxDepth) }

\* An honest submission of the record the chain bears out, carrying a nested
\* value in a field `a`, on connection 1 and, on every other connection, the
\* same submission with its keys written in another order.
InitOrder ==
  \E tree \in Trees(MaxDepth), answer \in FanOutAnswers(Tx(1)) :
    LET b == HonestBody(<<WithField(StdRecord(1), "a", tree)>>)
    IN \E writing \in [Reqs \ {1} -> Reorderings(b)] :
         Start([r \in Reqs |-> IF r = 1 THEN b ELSE writing[r]],
               [DefaultChain EXCEPT ![Tx(1)] = answer])

SpecOrder == InitOrder /\ [][Next]_vars

\* --------------------------------------------- inputs: concurrent requests

\* The submissions of the concurrent requests: an honest one of the records
\* of transactions 1 and 2, and an honest one of the record of transaction 2.
ConcurrentBodies ==
  { HonestBody(<<StdRecord(1), StdRecord(2)>>), HonestBody(<<StdRecord(2)>>) }

\* The chains they are checked against: the one that bears out every record;
\* one whose transaction 1 has no TraitAttested log; one where moreover
\* transaction 2 was attested by another attester; one whose node fails on
\* transaction 2.
ConcurrentChains ==
  { DefaultChain,
    [DefaultChain EXCEPT ![Tx(1)] = Receipt(<<ForeignLog>>)],
    [DefaultChain EXCEPT
       ![Tx(1)] = Receipt(<<ForeignLog>>),
       ![Tx(2)] = Receipt(<<TraitAttested(StdSubject, "0xB2", HashForTx(Tx(2)))>>)],
    [DefaultChain EXCEPT ![Tx(2)] = Unreachable] }

\* A request on every connection, all being handled at once.
InitTwo ==
  \E bodies \in [Reqs -> ConcurrentBodies], node \in ConcurrentChains :
    Start(bodies, node)

SpecTwo == InitTwo /\ [][Next]_vars

\* ============================================================== the claims

StageOrder == <<"shape", "identity", "integrity", "fetch", "onchain">>

\* The stages request r has executed, as a set.
Ran(r) == {ran[r][k] : k \in DOMAIN ran[r]}

\* The error list a stage of request r has yielded, as the handler holds it.
\* The integrity stage yields one result per record, and fails when one of
\* them holds an error; the fetch stage yields no list.
StageList(r, stage) ==
  CASE stage = "shape" -> reqFormatValidation[r]
    [] stage = "identity" -> basicOffChainValidation[r]
    [] stage = "integrity" -> offChainVerificationsOf[r]
    [] stage = "fetch" -> <<>>
    [] stage = "onchain" -> onChainVerifications[r]

StageFailed(r, stage) ==
  IF stage = "integrity" THEN hasOffChainVerificationErrors(offChainVerificationsOf[r])
  ELSE Len(StageList(r, stage)) # 0

\* The error list of a stage, computed from the request as received (and, for
\* the on-chain stage, from the pairs the fetches have pushed).
StageListOfRequest(r, stage) ==
  CASE stage = "shape" -> validateRequestFormat(body[r])
    [] stage = "identity" -> validateBasicOffChainProperties(Canonicalize(body[r]))
    [] stage = "integrity" -> offChainVerifications(Canonicalize(body[r]))
    [] stage = "fetch" -> <<>>
    [] stage = "onchain" ->
         validateOnChainProperties(Get(body[r], "subject"), decodedDataAndLogs[r])

\* C1: the stages of a request run in the order shape, identity, integrity,
\* fetch, on-chain; no stage runs after a stage that yielded errors; and a 400
\* carries the error list of the one failing stage, which is the last stage
\* that ran, every stage before it having yielded no error.
C1_StagesInOrderHaltAtFirstFailure ==
  \A r \in Reqs :
    /\ ran[r] = SubSeq(StageOrder, 1, Len(ran[r]))
    /\ \A k \in 1..(Len(ran[r]) - 1) : ~StageFailed(r, ran[r][k])
    /\ \A k \in DOMAIN ran[r] : StageList(r, ran[r][k]) = StageListOfRequest(r, ran[r][k])
    /\ response[r].status = 400 =>
         /\ ran[r] # <<>>
         /\ StageFailed(r, ran[r][Len(ran[r])])
         /\ response[r].errors = StageListOfRequest(r, ran[r][Len(ran[r])])
    /\ (ran[r] # <<>> /\ StageFailed(r, ran[r][Len(ran[r])])) =>
         response[r].status = 400 /\ pc[r] = "done"

\* A 400 of the on-chain stage, the four stages before it having passed.
C1_Witness ==
  \E r \in Reqs :
    /\ response[r].status = 400
    /\ ran[r] = StageOrder
    /\ response[r].errors = onChainVerifications[r]

\* The number of elements of a sequence that equal v.
Count(seq, v) == Cardinality({k \in DOMAIN seq : seq[k] = v})

\* The pairs of request r hold each DataRecord of the submission once.
OnePairPerRecord(r) ==
  LET records == Map(sortObject, Get(body[r], "data").arr)
      paired == [k \in DOMAIN decodedDataAndLogs[r] |-> decodedDataAndLogs[r][k].shareData]
  IN /\ Len(paired) = Len(records)
     /\ \A i \in DOMAIN records : Count(paired, records[i]) = Count(records, records[i])

\* C2: the cross-validator runs, and a 200 is sent, only when each of the N
\* fetches has completed successfully and the pairs are exactly one per
\* DataRecord of the submission; a 200 is sent only if the validator found no
\* error in them.
C2_AcceptOnlyAfterAllFetches ==
  \A r \in Reqs :
    /\ ("onchain" \in Ran(r) \/ response[r].status = 200) =>
         /\ "onchain" \in Ran(r)
         /\ Len(fetch[r]) = Len(Get(body[r], "data").arr)
         /\ \A i \in DOMAIN fetch[r] : fetch[r][i] = "done"
         /\ OnePairPerRecord(r)
    /\ response[r].status = 200 =>
         /\ onChainVerifications[r] = <<>>
         /\ validateOnChainProperties(Get(body[r], "subject"), decodedDataAndLogs[r]) = <<>>

\* A submission of two records accepted.
C2_Witness ==
  \E r \in Reqs :
    /\ response[r].status = 200
    /\ Len(decodedDataAndLogs[r]) >= 2

\* The pairs of request r in the order of `data`.
PairsInDataOrder(r) == [i \in DOMAIN DataOf(r) |-> FetchedPair(r, i)]

\* C3: the on-chain error list follows the order of the records in `data`,
\* whatever the order in which the fetches completed.
C3_ErrorsFollowDataOrder ==
  \A r \in Reqs :
    "onchain" \in Ran(r) =>
      onChainVerifications[r]
        = validateOnChainProperties(Get(body[r], "subject"), PairsInDataOrder(r))

\* C4: every pair holds a DataRecord of the submission together with the
\* decoded logs of that record's own transaction.
C4_LogsOfOwnTransaction ==
  \A r \in Reqs :
    \A k \in DOMAIN decodedDataAndLogs[r] :
      LET dl == decodedDataAndLogs[r][k]
      IN /\ \E i \in DOMAIN DataOf(r) : dl.shareData = DataOf(r)[i]
         /\ chain[Get(dl.shareData, "tx").str].node = "receipt"
         /\ dl.logs = decodeLogs(chain[Get(dl.shareData, "tx").str].logs)

\* The cross-validator has run on two pairs that arrived in the reverse of
\* the data order, the two transactions bearing different logs.
C4_Witness ==
  \E r \in Reqs :
    /\ "onchain" \in Ran(r)
    /\ Len(decodedDataAndLogs[r]) = 2
    /\ decodedDataAndLogs[r][1].shareData = DataOf(r)[2]
    /\ decodedDataAndLogs[r][1].logs # decodedDataAndLogs[r][2].logs

\* C5: a request one of whose fetches has failed ends with a 5xx response.
C5_FetchFailureAnswered5xx ==
  \A r \in Reqs :
    (\E i \in DOMAIN fetch[r] : fetch[r][i] = "failed") =>
      /\ pc[r] \in {"done", "unhandled"}
      /\ response[r].status = 500

Fields == <<"token", "subject", "data", "packedData", "signature">>

\* A string of whitespace only (the empty string is one).
AllWhite(s) == \A i \in 1..Len(s) : SubSeq(s, i, i) \in WhiteSpace

\* A field that is blank or absent, or for data not a non-empty sequence.
BlankOrAbsent(b, f) ==
  LET v == Get(b, f)
  IN IF f = "data" THEN ~IsArr(v) \/ v.arr = <<>>
     ELSE IsUndefined(v) \/ IsNull(v) \/ (IsStr(v) /\ AllWhite(v.str))

\* A field that is no string with a character other than whitespace, or for
\* data not a non-empty sequence.
NotANonBlankString(b, f) ==
  LET v == Get(b, f)
  IN IF f = "data" THEN ~IsArr(v) \/ v.arr = <<>>
     ELSE ~IsStr(v) \/ AllWhite(v.str)

\* One error per field of Fields that is Missing, in the order of Fields.
OneErrorPerField(b, Missing(_, _)) ==
  Map(Err, SelectSeq(Fields, LAMBDA f : Missing(b, f)))

\* The shape stage of request r returned `expected`, and if that is not
\* empty the request ended with a 400 carrying it, no other stage having run.
ShapeStageYields(r, expected) ==
  /\ reqFormatValidation[r] = expected
  /\ expected # <<>> =>
       /\ response[r] = BadRequest(expected)
       /\ ran[r] = <<"shape">>
       /\ pc[r] = "done"

\* C6 as claimed: the Shape Validator returns one error per field that is
\* blank or absent (for data: not a non-empty sequence) and none for another
\* field, and a request with such a field ends with a 400 carrying that list,
\* no later stage having run.
C6_OneErrorPerBlankOrAbsentField ==
  \A r \in Reqs :
    "shape" \in Ran(r) => ShapeStageYields(r, OneErrorPerField(body[r], BlankOrAbsent))

\* C6 amended: the Shape Validator returns one error per field that is not a
\* string with a non-whitespace character (absent, null, of another type,
\* empty or blank), or for data not a non-empty sequence, and none for
\* another field; a request with such a field ends with a 400 carrying that
\* list, no later stage having run.
C6_OneErrorPerFieldNotANonBlankString ==
  \A r \in Reqs :
    "shape" \in Ran(r) => ShapeStageYields(r, OneErrorPerField(body[r], NotANonBlankString))

\* A 400 for a body with a blank subject, no data and a numeric signature.
C6_Witness ==
  \E r \in Reqs :
    /\ Get(body[r], "subject") = Str(" \t ")
    /\ IsUndefined(Get(body[r], "data"))
    /\ IsNum(Get(body[r], "signature"))
    /\ response[r] = BadRequest(<<Err("subject"), Err("data"), Err("signature")>>)

\* The decoded log `log` is a TraitAttested event whose subject, attester
\* and dataHash are those of the pair dl of a submission claiming `subject`.
MatchingTraitAttested(subject, dl, log) ==
  /\ log.name = "TraitAttested"
  /\ \E e \in DOMAIN log.events :
       log.events[e].name = "subject" /\ Str(log.events[e].value) = subject
  /\ \E e \in DOMAIN log.events :
       /\ log.events[e].name = "attester"
       /\ Str(log.events[e].value) = Get(dl.shareData, "attester")
  /\ \E e \in DOMAIN log.events :
       /\ log.events[e].name = "dataHash"
       /\ Str(log.events[e].value) = Get(dl.shareData, "layer2Hash")

\* C7: a record whose transaction's decoded logs contain a matching
\* TraitAttested event gets no error from the cross-validator, whatever other
\* logs the transaction has and wherever the matching one sits: a request all
\* of whose records have one passes the on-chain stage.
C7_MatchingLogAnywhereYieldsNoError ==
  \A r \in Reqs :
    "onchain" \in Ran(r) =>
      /\ \A k \in DOMAIN decodedDataAndLogs[r] :
           LET dl == decodedDataAndLogs[r][k]
           IN (\E j \in DOMAIN dl.logs :
                 MatchingTraitAttested(Get(body[r], "subject"), dl, dl.logs[j]))
              => forEachDecodedLogsAndData(Get(body[r], "subject"), dl) = <<>>
      /\ (\A k \in DOMAIN decodedDataAndLogs[r] :
            LET dl == decodedDataAndLogs[r][k]
            IN \E j \in DOMAIN dl.logs :
                 MatchingTraitAttested(Get(body[r], "subject"), dl, dl.logs[j]))
         => onChainVerifications[r] = <<>> /\ response[r].status = 200

HasTraitAttested(dl) == \E j \in DOMAIN dl.logs : dl.logs[j].name = "TraitAttested"

\* The number of errors of a list that are keyed k.
CountKey(errors, k) == Cardinality({e \in DOMAIN errors : errors[e].key = k})

\* C8: a record whose decoded logs hold no TraitAttested log gets exactly one
\* error, keyed TraitAttested, and none of the three comparisons: the list
\* holds one TraitAttested error per such record, and for a request all of
\* whose records are such, nothing else.
C8_NoTraitAttestedYieldsOneError ==
  \A r \in Reqs :
    "onchain" \in Ran(r) =>
      LET lacking == {k \in DOMAIN decodedDataAndLogs[r] :
                        ~HasTraitAttested(decodedDataAndLogs[r][k])}
      IN /\ \A k \in lacking :
              forEachDecodedLogsAndData(Get(body[r], "subject"), decodedDataAndLogs[r][k])
                = <<Err("TraitAttested")>>
         /\ CountKey(onChainVerifications[r], "TraitAttested") = Cardinality(lacking)
         /\ lacking = DOMAIN decodedDataAndLogs[r] =>
              /\ onChainVerifications[r]
                   = [k \in DOMAIN decodedDataAndLogs[r] |-> Err("TraitAttested")]
              /\ response[r] = BadRequest(onChainVerifications[r])

\* The cross-validator has run on a record whose transaction has decoded
\* logs, none of them TraitAttested.
C8_Witness ==
  \E r \in Reqs :
    /\ "onchain" \in Ran(r)
    /\ Len(decodedDataAndLogs[r]) = 1
    /\ decodedDataAndLogs[r][1].logs # <<>>
    /\ ~HasTraitAttested(decodedDataAndLogs[r][1])
    /\ response[r] = BadRequest(<<Err("TraitAttested")>>)

\* The TraitAttested log the cross-validator reads: the first of the pair.
FirstTraitAttested(dl) ==
  dl.logs[CHOOSE j \in DOMAIN dl.logs :
            /\ dl.logs[j].name = "TraitAttested"
            /\ \A i \in DOMAIN dl.logs : dl.logs[i].name = "TraitAttested" => j <= i]

\* The value of the field of a decoded log, undefined if it has none.
EventField(log, name) ==
  LET named == SelectSeq(log.events, LAMBDA e : e.name = name)
  IN IF named = <<>> THEN Undefined ELSE Str(named[1].value)

\* The claimed value and the on-chain value of a compared field disagree.
Disagrees(subject, dl, field) ==
  CASE field = "subject" -> subject # EventField(FirstTraitAttested(dl), "subject")
    [] field = "attester" ->
         Get(dl.shareData, "attester") # EventField(FirstTraitAttested(dl), "attester")
    [] field = "layer2Hash" ->
         Get(dl.shareData, "layer2Hash") # EventField(FirstTraitAttested(dl), "dataHash")

DisagreementErrors(subject, dl) ==
  Map(Err, SelectSeq(<<"subject", "attester", "layer2Hash">>,
                     LAMBDA f : Disagrees(subject, dl, f)))

\* C9: a record with a TraitAttested log gets one error per disagreeing field
\* among subject, attester and layer2Hash, in that order, and none for an
\* agreeing field; a request of one such record ends with a 400 carrying
\* those errors if there are any, and with a 200 otherwise: one whose
\* attester alone disagrees ends with a 400 of exactly one error, keyed
\* attester.
C9_OneErrorPerDisagreeingField ==
  \A r \in Reqs :
    "onchain" \in Ran(r) =>
      /\ \A k \in DOMAIN decodedDataAndLogs[r] :
           LET dl == decodedDataAndLogs[r][k]
           IN HasTraitAttested(dl) =>
                forEachDecodedLogsAndData(Get(body[r], "subject"), dl)
                  = DisagreementErrors(Get(body[r], "subject"), dl)
      /\ (Len(decodedDataAndLogs[r]) = 1 /\ HasTraitAttested(decodedDataAndLogs[r][1])) =>
           LET expected == DisagreementErrors(Get(body[r], "subject"), decodedDataAndLogs[r][1])
           IN /\ onChainVerifications[r] = expected
              /\ response[r] = IF expected = <<>> THEN Accepted(Get(body[r], "token"))
                               ELSE BadRequest(expected)
              /\ (/\ ~Disagrees(Get(body[r], "subject"), decodedDataAndLogs[r][1], "subject")
                  /\ Disagrees(Get(body[r], "subject"), decodedDataAndLogs[r][1], "attester")
                  /\ ~Disagrees(Get(body[r], "subject"), decodedDataAndLogs[r][1], "layer2Hash"))
                 => response[r] = BadRequest(<<Err("attester")>>)

\* A submission of one record whose attester is not the one of the log: a
\* 400 with the one error keyed attester.
C9_Witness ==
  \E r \in Reqs :
    /\ Len(decodedDataAndLogs[r]) = 1
    /\ HasTraitAttested(decodedDataAndLogs[r][1])
    /\ EventField(FirstTraitAttested(decodedDataAndLogs[r][1]), "attester")
         # Get(decodedDataAndLogs[r][1].shareData, "attester")
    /\ response[r] = BadRequest(<<Err("attester")>>)

HasError(errors, k) == \E e \in DOMAIN errors : errors[e].key = k

\* Request m is request v with its packedData changed, v having passed the
\* identity stage (its signature is valid for its subject and packedData) and
\* m having gone through it.
MutatedAfterValidSigning(v, m) ==
  /\ "identity" \in Ran(v) /\ basicOffChainValidation[v] = <<>>
  /\ "identity" \in Ran(m)
  /\ Get(body[m], "packedData") # Get(body[v], "packedData")
  /\ body[m] = WithPackedData(body[v], Get(body[m], "packedData"))

\* C10 as claimed: for a submission whose packedData was changed after a
\* valid signing the hash check fails and the signer check has the outcome it
\* has for the unchanged submission.
C10_SignerCheckUnaffectedByPackedData ==
  \A v, m \in Reqs :
    MutatedAfterValidSigning(v, m) =>
      /\ HasError(basicOffChainValidation[m], "packedData")
      /\ HasError(basicOffChainValidation[m], "subject")
           <=> HasError(basicOffChainValidation[v], "subject")

\* C10 amended: for a submission whose packedData was changed after a valid
\* signing the hash check fails, and the signer check is made over the
\* changed packedData: the error keyed subject is reported exactly when the
\* signer recovered from the changed packedData and the signature is not the
\* subject.
C10_SignerCheckOverMutatedPackedData ==
  \A v, m \in Reqs :
    MutatedAfterValidSigning(v, m) =>
      /\ HasError(basicOffChainValidation[m], "packedData")
      /\ HasError(basicOffChainValidation[m], "subject")
           <=> Get(body[m], "subject")
                 # Str(recoverHashSigner(toBuffer(Get(body[m], "packedData").str),
                                         Get(body[m], "signature").str))

\* The changed submission is answered with both errors, the unchanged one
\* having passed the stage.
C10_Witness ==
  \E v, m \in Reqs :
    /\ MutatedAfterValidSigning(v, m)
    /\ response[m] = BadRequest(<<Err("subject"), Err("packedData")>>)

\* The DataRecords of the submission of request r, their keys sorted.
Records(r) == Map(sortObject, Get(body[r], "data").arr)

\* The submission of request r passes every stage: it is well-formed, its
\* signer is its subject, its packedData is the recomputed hash, every record
\* passes the integrity primitive, every fetch succeeds and every record's
\* transaction has a TraitAttested log matching it.
FullyValid(r) ==
  /\ body[r] # NoRequest
  /\ \A k \in DOMAIN Fields : ~NotANonBlankString(body[r], Fields[k])
  /\ Get(body[r], "subject")
       = Str(recoverHashSigner(toBuffer(Get(body[r], "packedData").str),
                               Get(body[r], "signature").str))
  /\ Get(body[r], "packedData")
       = Str(PackedDataOf(Get(body[r], "data").arr, Get(body[r], "token").str))
  /\ \A i \in DOMAIN Records(r) :
       LET d == Records(r)[i]
           answer == chain[Get(d, "tx").str]
       IN /\ verifyOffChainDataIntegrity(d) = <<>>
          /\ answer.node = "receipt"
          /\ \E j \in DOMAIN decodeLogs(answer.logs) :
               MatchingTraitAttested(Get(body[r], "subject"),
                                     [shareData |-> d, logs |-> decodeLogs(answer.logs)],
                                     decodeLogs(answer.logs)[j])

\* C11: a submission that passes every stage is answered 200 with
\* {success: true, token}, the token as submitted: once its handler has
\* ended, that is the response it has sent.
C11_FullyValidAccepted ==
  \A r \in Reqs :
    (FullyValid(r) /\ pc[r] \in {"done", "unhandled"}) =>
      response[r] = Accepted(Get(body[r], "token"))

\* The result the integrity stage owes to the i-th record of the submission
\* of request r, as received.
IntegrityResult(r, i) ==
  LET d == Get(body[r], "data").arr[i]
  IN [layer2Hash |-> Get(d, "layer2Hash"),
      errors |-> IF Get(d, "proof") = Str("ok") THEN <<>>
                 ELSE <<"proof does not hash to layer2Hash">>]

IntegrityResults(r) == [i \in DOMAIN Get(body[r], "data").arr |-> IntegrityResult(r, i)]

\* C12: the integrity stage yields exactly one {layer2Hash, errors} result
\* per record, in the order of the records, those with no error included;
\* when one of them holds an error the 400 carries the whole list and no
\* fetch is ever started; when none does the stage passes; and no fetch has
\* been started before the integrity stage has passed.
C12_OneIntegrityResultPerRecord ==
  \A r \in Reqs :
    /\ "integrity" \in Ran(r) =>
         LET results == IntegrityResults(r)
             failed == \E i \in DOMAIN results : results[i].errors # <<>>
         IN /\ offChainVerificationsOf[r] = results
            /\ Len(offChainVerificationsOf[r]) = Len(Get(body[r], "data").arr)
            /\ failed => /\ response[r] = BadRequest(results)
                         /\ pc[r] = "done"
                         /\ "fetch" \notin Ran(r)
            /\ ~failed => (pc[r] = "fanout" /\ response[r] = NoResponse)
                            \/ "fetch" \in Ran(r)
    /\ "fetch" \notin Ran(r) => fetch[r] = <<>> /\ decodedDataAndLogs[r] = <<>>
    /\ "fetch" \in Ran(r) => "integrity" \in Ran(r)

\* A 400 of the integrity stage over two records, one intact and one not.
C12_Witness ==
  \E r \in Reqs :
    /\ response[r].status = 400
    /\ ran[r] = <<"shape", "identity", "integrity">>
    /\ Len(response[r].errors) = 2
    /\ \E i, j \in DOMAIN response[r].errors :
         /\ response[r].errors[i].errors = <<>>
         /\ response[r].errors[j].errors # <<>>
    /\ fetch[r] = <<>>

\* The signer recovered from the packedData and the signature of the
\* submission of request r is its subject.
SignerIsSubject(r) ==
  Get(body[r], "subject")
    = Str(recoverHashSigner(toBuffer(Get(body[r], "packedData").str),
                            Get(body[r], "signature").str))

\* The hash recomputed from the data and the token of the submission of
\* request r is its packedData.
HashIsPackedData(r) ==
  Get(body[r], "packedData")
    = Str(PackedDataOf(Get(body[r], "data").arr, Get(body[r], "token").str))

\* C16: the identity stage evaluates both of its checks: its list has at
\* most two entries, at most one per key, keyed subject or packedData; the
\* error keyed subject is in it exactly when the recovered signer is not the
\* subject, and the error keyed packedData exactly when the recomputed hash
\* is not the packedData, whatever the outcome of the signer check.
C16_BothIdentityChecksEvaluated ==
  \A r \in Reqs :
    "identity" \in Ran(r) =>
      LET errors == basicOffChainValidation[r]
      IN /\ Len(errors) <= 2
         /\ \A e \in DOMAIN errors : errors[e].key \in {"subject", "packedData"}
         /\ \A e, f \in DOMAIN errors : errors[e].key = errors[f].key => e = f
         /\ HasError(errors, "subject") <=> ~SignerIsSubject(r)
         /\ HasError(errors, "packedData") <=> ~HashIsPackedData(r)
         /\ errors # <<>> => response[r] = BadRequest(errors)

\* A submission signed by another address than its subject and claiming a
\* packedData that is not the recomputed hash: both errors are reported.
C16_Witness ==
  \E r \in Reqs :
    /\ "identity" \in Ran(r)
    /\ ~SignerIsSubject(r) /\ ~HashIsPackedData(r)
    /\ Len(basicOffChainValidation[r]) = 2
    /\ pc[r] = "done"

\* The errors the cross-validator owes to one pair: the one keyed
\* TraitAttested when the pair has no such log, the disagreements otherwise.
PairErrors(subject, dl) ==
  IF HasTraitAttested(dl) THEN DisagreementErrors(subject, dl)
  ELSE <<Err("TraitAttested")>>

\* The errors of the first k pairs of request r, one pair after another.
RECURSIVE ErrorsOfPairs(_, _)
ErrorsOfPairs(r, k) ==
  IF k = 0 THEN <<>>
  ELSE ErrorsOfPairs(r, k - 1)
         \o PairErrors(Get(body[r], "subject"), decodedDataAndLogs[r][k])

\* C17: the list of the on-chain stage is the concatenation of the errors of
\* all the pairs, in the order of the pairs: a pair with errors does not stop
\* the pairs after it from being examined; and the submission is answered 400
\* with that list exactly when the list is not empty, 200 otherwise.
C17_OnChainErrorsAggregated ==
  \A r \in Reqs :
    "onchain" \in Ran(r) =>
      LET errors == ErrorsOfPairs(r, Len(decodedDataAndLogs[r]))
      IN /\ onChainVerifications[r] = errors
         /\ response[r].status = 400 <=> errors # <<>>
         /\ response[r].status = 200 <=> errors = <<>>
         /\ errors # <<>> => response[r] = BadRequest(errors)

\* Two pairs with errors each: the 400 carries the errors of both.
C17_Witness ==
  \E r \in Reqs :
    /\ "onchain" \in Ran(r)
    /\ Len(decodedDataAndLogs[r]) = 2
    /\ \A k \in 1..2 :
         PairErrors(Get(body[r], "subject"), decodedDataAndLogs[r][k]) # <<>>
    /\ response[r].status = 400
    /\ Len(response[r].errors) = 2

\* C19: the submission a request holds is never modified: no step of any
\* handler changes the body of a request, neither its field values nor the
\* order of its keys or of the keys of its records.
C19_BodyNeverModified ==
  [][\A r \in Reqs : body'[r] = body[r]]_vars

\* A submission whose keys were not received sorted has been handled to its
\* response: the canonical form the stages worked on is another value.
C19_Witness ==
  \E r \in Reqs :
    /\ response[r].status = 200
    /\ body[r] # sortObject(body[r])
    /\ \E i \in DOMAIN Get(body[r], "data").arr :
         Get(body[r], "data").arr[i] # sortObject(Get(body[r], "data").arr[i])
    /\ shareKitResData[r] = Canonicalize(body[r])
    /\ shareKitResData[r] # body[r]

\* The response of request r agrees with the stages it has run: 400 exactly
\* when the last stage run has yielded errors, 200 exactly when all five
\* stages have run and none has; and a handler that has responded has ended.
ResponseAgreesWithStages(r) ==
  /\ response[r].status = 400 <=>
       (ran[r] # <<>> /\ StageFailed(r, ran[r][Len(ran[r])]))
  /\ response[r].status = 200 <=>
       (ran[r] = StageOrder /\ \A k \in DOMAIN ran[r] : ~StageFailed(r, ran[r][k]))
  /\ response[r] # NoResponse => pc[r] = "done"

\* Once request r has its response, no step sends another or runs a stage.
RespondedIsFinal(r) ==
  response[r] # NoResponse =>
    response'[r] = response[r] /\ ran'[r] = ran[r] /\ pc'[r] = pc[r]

\* C20: a request gets at most one response: once one is sent it is never
\* replaced and the handler runs no further stage; the status is 400 exactly
\* when the last stage run has a non-empty error list and 200 exactly when
\* all stages have passed.
C20_AtMostOneResponse ==
  /\ [](\A r \in Reqs : ResponseAgreesWithStages(r))
  /\ [][\A r \in Reqs : RespondedIsFinal(r)]_vars

\* A request has its response while callbacks of its fan-out are still to
\* resume: steps of the request follow the response.
C20_Witness ==
  \E r \in Reqs :
    /\ response[r] # NoResponse
    /\ pc[r] = "done"
    /\ \E i \in DOMAIN fetch[r] : fetch[r][i] = "pending"

\* C14: canonicalization is idempotent: sorting the sorted body, or a sorted
\* data element, yields it again, and so does canonicalizing the canonical
\* form the handler holds.
C14_CanonicalizeIdempotent ==
  \A r \in Reqs :
    shareKitResData[r] # Undefined =>
      /\ sortObject(sortObject(body[r])) = sortObject(body[r])
      /\ \A i \in DOMAIN Get(body[r], "data").arr :
           LET d == Get(body[r], "data").arr[i]
           IN /\ sortObject(sortObject(d)) = sortObject(d)
              /\ Get(shareKitResData[r], "data").arr[i] = sortObject(d)
      /\ Canonicalize(shareKitResData[r]) = shareKitResData[r]

\* A record carrying a sequence that holds a mapping written out of order
\* has been canonicalized into another value than the one received.
C14_Witness ==
  \E r \in Reqs :
    /\ shareKitResData[r] # Undefined
    /\ shareKitResData[r] # body[r]
    /\ \E i \in DOMAIN Get(body[r], "data").arr :
         LET a == Get(Get(body[r], "data").arr[i], "a")
         IN /\ IsArr(a) /\ IsObj(a.arr[1])
            /\ a.arr[1] # sortObject(a.arr[1])

\* Value y is value x but for the order of the keys of its mappings: a
\* mapping for a mapping, of the same keys, a sequence for a sequence, of the
\* same length, and at every path the scalar that x has there.
RECURSIVE SameButKeyOrder(_, _)
SameButKeyOrder(x, y) ==
  IF IsObj(x)
  THEN /\ IsObj(y)
       /\ {x.obj[i].key : i \in DOMAIN x.obj} = {y.obj[i].key : i \in DOMAIN y.obj}
       /\ Len(x.obj) = Len(y.obj)
       /\ \A i \in DOMAIN x.obj : SameButKeyOrder(x.obj[i].val, Get(y, x.obj[i].key))
  ELSE IF IsArr(x)
  THEN /\ IsArr(y)
       /\ Len(x.arr) = Len(y.arr)
       /\ \A i \in DOMAIN x.arr : SameButKeyOrder(x.arr[i], y.arr[i])
  ELSE y = x

\* C18: canonicalization preserves the scalars: the canonical form the
\* handler holds has every string, number and null of the received body at
\* the path it was received at, and differs from it in the order of keys
\* only.
C18_ScalarLeavesPreserved ==
  \A r \in Reqs :
    shareKitResData[r] # Undefined => SameButKeyOrder(body[r], shareKitResData[r])

\* C13: two submissions that differ in the order of mapping keys only, at
\* whatever depth, have the same canonical form, the same encoding of
\* {data, token} and the same recomputed hash.
C13_CanonicalFormIgnoresKeyOrder ==
  \A v, m \in Reqs :
    (/\ shareKitResData[v] # Undefined /\ shareKitResData[m] # Undefined
     /\ SameButKeyOrder(body[v], body[m])) =>
      /\ shareKitResData[v] = shareKitResData[m]
      /\ recoveredPackedData(shareKitResData[v]) = recoveredPackedData(shareKitResData[m])

\* The orders in which n fetches can complete.
ArrivalOrders(n) == {p \in [1..n -> 1..n] : \A i, j \in 1..n : p[i] = p[j] => i = j}

\* The responses a submission b gets when it is the only request the server
\* handles, against chain c: the 400 of its first failing stage; nothing or a
\* 500 when a fetch fails; else the verdict of the cross-validator on its
\* pairs, in one of the orders its fetches can complete in.
AloneResponses(b, c) ==
  LET shape == validateRequestFormat(b)
      sorted == Canonicalize(b)
      identity == validateBasicOffChainProperties(sorted)
      integrity == offChainVerifications(sorted)
      data == Get(sorted, "data").arr
  IN IF shape # <<>> THEN {BadRequest(shape)}
     ELSE IF identity # <<>> THEN {BadRequest(identity)}
     ELSE IF hasOffChainVerificationErrors(integrity) THEN {BadRequest(integrity)}
     ELSE IF \E i \in DOMAIN data : FetchFails(c[Get(data[i], "tx").str])
     THEN {NoResponse, ServerError}
     ELSE { LET pairs == [k \in DOMAIN data |->
                            [shareData |-> data[p[k]],
                             logs |-> getDecodedTxEventLogs(c[Get(data[p[k]], "tx").str])]]
                errors == validateOnChainProperties(Get(sorted, "subject"), pairs)
            IN IF errors # <<>> THEN BadRequest(errors) ELSE Accepted(Get(b, "token")) :
            p \in ArrivalOrders(Len(data)) }

\* All that the handler of request q holds.
Local(q) ==
  << body[q], pc[q], reqFormatValidation[q], shareKitResData[q],
     basicOffChainValidation[q], offChainVerificationsOf[q], fetch[q],
     decodedDataAndLogs[q], onChainVerifications[q], response[q], ran[q] >>

\* C15: requests handled at once do not affect each other: whatever the
\* interleaving of their steps and of their fetch completions, the response
\* of a request whose handler has ended is one it gets when handled alone,
\* and a step of one request changes nothing that another request holds.
C15_RequestsIndependent ==
  /\ [](\A r \in Reqs :
          IF pc[r] \in {"done", "unhandled"}
          THEN response[r] \in AloneResponses(body[r], chain)
          ELSE response[r] = NoResponse)
  /\ [][/\ chain' = chain
        /\ \E r \in Reqs : \A q \in Reqs \ {r} : Local(q)' = Local(q)]_vars

\* One request has been answered by the cross-validator while another, of a
\* different submission, is in its fan-out with a pair already pushed.
C15_Witness ==
  \E r, q \in Reqs :
    /\ r # q /\ body[r] # body[q]
    /\ pc[r] = "done" /\ "onchain" \in Ran(r) /\ response[r].status = 400
    /\ pc[q] = "awaiting" /\ decodedDataAndLogs[q] # <<>>

====
